---- MODULE Spec2Model ----
(***************************************************************************)
(* Account boundary segmentation of prabh1805/IDP.                         *)
(*                                                                         *)
(* src/pdfBreaker.py folds the pages of one combined PDF, in page order,   *)
(* into a dict  account number -> {extraction, attachments}  of range      *)
(* descriptors.  The model keeps the loop's variables, the dict `out` as   *)
(* an insertion-ordered sequence of entries, and what the script prints.   *)
(*                                                                         *)
(* A Python str is modelled as the sequence of its characters, so "3-5"    *)
(* is <<"3", "-", "5">>.  Account numbers are dict keys that the fold only *)
(* compares, so they stay atomic strings.                                  *)
(***************************************************************************)
EXTENDS Integers, Sequences, FiniteSets, TLC

VARIABLES
    doc,               \* the document: per page, the outcome of find_account_numbers
    idx,               \* 1-based index of the page the loop is at
    pc,                \* "loop" | "done" | "failed" (uncaught exception) | "idle"
    out,               \* the dict `out`, in insertion order
    current_acct,      \* account number in force, or None
    extraction_pages,  \* pages where the account number was seen
    attachment_pages,  \* trailing pages of that account
    log,               \* the diagnostic lines printed so far
    printed,           \* <<>> or <<the JSON printed at the end>>
    run,               \* which run of the script over `doc` this is (1 or 2)
    prev_printed,      \* what the previous run over `doc` printed
    enc_in,            \* the list handed to _range_str
    enc_out,           \* <<>> or <<the descriptor _range_str returned>>
    ext_fields,        \* Textract FORMS of a page: (key text, value text) pairs
    ext_lines,         \* Textract LINE blocks of that page: their texts
    ext_accounts,      \* <<>> or <<the set find_account_numbers returned>>
    mk_lines,          \* text.splitlines() of a page of pdfBreaker2.py
    mk_account,        \* <<>> or <<what extract_account_number returned>>
    dec_out,           \* <<>> or <<the list parse_range decoded from enc_out>>
    uploaded_files,    \* <<>> or <<per account, the pages of the two PDFs built>>
    sp_doc,            \* pdfBreaker2.py: per page, what extract_account_number gives
    sp_pc,             \* "off" | "loop" | "done"
    page_index,        \* 0-based index of the page split_on_new_account is at
    seen_accounts,     \* account numbers that already opened a chunk
    current_start,     \* first page (0-based) of the current chunk
    part_no,           \* number of the next part to save
    saved,             \* the save_part calls made so far, in order
    pdf_files,         \* email_trigger.py: per downloaded PDF, how its two runs end
    mail_pc,           \* "off" | "fetched" | "pipeline" | "textract" | "triggered" | "marked" | "returned"
    runs,              \* the subprocess runs made so far, in order
    success,           \* what trigger_pipeline returned (None before it returns)
    processed,         \* the email carries the \Seen flag set by mark_as_processed
    sent               \* the mails sent to the sender, in order

vars == <<doc, idx, pc, out, current_acct, extraction_pages, attachment_pages,
          log, printed, run, prev_printed, enc_in, enc_out,
          ext_fields, ext_lines, ext_accounts, mk_lines, mk_account,
          dec_out, uploaded_files,
          sp_doc, sp_pc, page_index, seen_accounts, current_start, part_no, saved,
          pdf_files, mail_pc, runs, success, processed, sent>>

foldVars == <<doc, idx, pc, out, current_acct, extraction_pages,
              attachment_pages, log, printed, run, prev_printed>>

encVars == <<enc_in, enc_out>>

extVars == <<ext_fields, ext_lines, ext_accounts>>

mkVars == <<mk_lines, mk_account>>

decVars == <<dec_out>>

sliceVars == <<uploaded_files>>

splitVars == <<sp_doc, sp_pc, page_index, seen_accounts, current_start,
               part_no, saved>>

mailVars == <<pdf_files, mail_pc, runs, success, processed, sent>>

----------------------------------------------------------------------------
(* Bounds of the model. *)

\* longest document whose pages are drawn freely
MaxPages == 5

\* largest page index in a list handed to the range encoder on its own
MaxPageNo == 10

\* most form fields, and most text lines, on a page given to find_account_numbers
MaxFields == 1

MaxLines == 1

\* most lines of a page given to extract_account_number
MaxTextLines == 3

\* longest document given to split_on_new_account
MaxSplitPages == 5

\* most PDF attachments of one email
MaxAttachments == 2

----------------------------------------------------------------------------
(* Values. *)

None == "None"

Accounts == {"111", "222"}

\* One page of the document: either Textract answered and the page carries
\* the candidate set accts, or the call raised.
PageOutcomes ==
    [ok : {TRUE}, accts : SUBSET Accounts] \cup [ok : {FALSE}, accts : {{}}]

Page(C) == [ok |-> TRUE, accts |-> C]

\* Scenario A of the specification: [{}, {123}, {123}, {}, {}, {456}, {}]
ScenarioA ==
    << Page({}), Page({"123"}), Page({"123"}), Page({}), Page({}),
       Page({"456"}), Page({}) >>

\* Scenario B of the specification: [{111}, {111, 222}, {222}]
ScenarioB == << Page({"111"}), Page({"111", "222"}), Page({"222"}) >>

Docs == UNION { [1..n -> PageOutcomes] : n \in 0..MaxPages } \cup {ScenarioA}

----------------------------------------------------------------------------
(* Python helpers. *)

Range(s) == { s[i] : i \in 1..Len(s) }

DigitChars == <<"0", "1", "2", "3", "4", "5", "6", "7", "8", "9">>

\* str(n) of a non-negative int: its decimal digits, most significant first
RECURSIVE str(_)
str(n) == IF n < 10 THEN << DigitChars[n + 1] >>
                    ELSE str(n \div 10) \o << DigitChars[(n % 10) + 1] >>

min(pages) == CHOOSE x \in Range(pages) : \A y \in Range(pages) : x <= y

max(pages) == CHOOSE x \in Range(pages) : \A y \in Range(pages) : x >= y

\* _range_str with the threshold of the f-string branch off by one
_range_str_two_is_single(pages) ==
    IF pages = <<>> THEN <<>>
    ELSE IF Len(pages) > 2 THEN str(min(pages)) \o <<"-">> \o str(max(pages))
    ELSE str(pages[1])

\* _range_str: [1,2,3] -> '1-3' | [6] -> '6' | [] -> ''
_range_str(pages) ==
    IF pages = <<>> THEN <<>>
    ELSE IF Len(pages) > 1 THEN str(min(pages)) \o <<"-">> \o str(max(pages))
    ELSE str(pages[1])

----------------------------------------------------------------------------
(* find_account_numbers, seen from the loop: it returns a set or raises. *)

\* find_account_numbers wrapped in  try: ... except Exception: return set()
Raises_swallowed(page) == FALSE

\* textract.analyze_document raising (error, timeout, cancellation): nothing
\* in find_account_numbers or in the loop catches it
Raises(page) == ~page.ok

find_account_numbers(page) == page.accts

\* accounts_on_page.pop(): an arbitrary element of the set (the iteration
\* order of a set of str changes with the process's hash seed)
pop(accounts_on_page) == accounts_on_page

\* the test of the loop's first branch with the comparison to the current
\* account left out
new_account_detected_any(accounts_on_page, acct) == accounts_on_page # {}

\* accounts_on_page and accounts_on_page != {current_acct}
new_account_detected(accounts_on_page, acct) ==
    accounts_on_page # {} /\ accounts_on_page # {acct}

----------------------------------------------------------------------------
(* The dict `out`. *)

\* The value stored under an account, with the two lists the descriptors
\* were encoded from (history only: the script stores the descriptors).
Entry(acct, ext, att) ==
    [ key             |-> acct,
      extraction      |-> _range_str(ext),
      attachments     |-> _range_str(att),
      extraction_list |-> ext,
      attachment_list |-> att ]

Keys(d) == { d[i].key : i \in 1..Len(d) }

\* a dict whose re-assigned key moves to the end (del d[k]; d[k] = v)
DictSet_moves_to_end(d, e) ==
    Append(SelectSeq(d, LAMBDA x : x.key # e.key), e)

\* d[e.key] = e on a Python dict: an existing key keeps its position and
\* has its value replaced, a new key goes last
DictSet(d, e) ==
    IF e.key \in Keys(d)
    THEN [ i \in 1..Len(d) |-> IF d[i].key = e.key THEN e ELSE d[i] ]
    ELSE Append(d, e)

\* json.dumps(out): keys in insertion order, each with its two descriptors
Json(d) ==
    [ i \in 1..Len(d) |->
        [ key         |-> d[i].key,
          extraction  |-> d[i].extraction,
          attachments |-> d[i].attachments ] ]

\* the same-account branch without its else: a page with no number is
\* appended nowhere
continue_account_no_else(ext, att, accounts_on_page, i) ==
    IF accounts_on_page # {} THEN <<Append(ext, i), att>>
                             ELSE <<ext, att>>

\* the same-account branch with the two lists swapped
continue_account_swapped(ext, att, accounts_on_page, i) ==
    IF accounts_on_page # {} THEN <<ext, Append(att, i)>>
                             ELSE <<Append(ext, i), att>>

\* the same-account branch whose else appends the page to both lists
continue_account_both(ext, att, accounts_on_page, i) ==
    IF accounts_on_page # {} THEN <<Append(ext, i), att>>
                             ELSE <<Append(ext, i), Append(att, i)>>

\* if accounts_on_page: extraction_pages.append(idx)
\* else:                attachment_pages.append(idx)
continue_account(ext, att, accounts_on_page, i) ==
    IF accounts_on_page # {} THEN <<Append(ext, i), att>>
                             ELSE <<ext, Append(att, i)>>

----------------------------------------------------------------------------
(* The state after construction, for document d. *)

\* pipeline.py has not decoded or sliced anything
SliceIdle == dec_out = <<>> /\ uploaded_files = <<>>

\* split_on_new_account of pdfBreaker2.py is not running
SplitIdle ==
    /\ sp_doc = <<>>
    /\ sp_pc = "off"
    /\ page_index = 0
    /\ seen_accounts = {}
    /\ current_start = 0
    /\ part_no = 1
    /\ saved = <<>>

\* email_trigger.py is not running
MailIdle ==
    /\ pdf_files = <<>>
    /\ mail_pc = "off"
    /\ runs = <<>>
    /\ success = None
    /\ processed = FALSE
    /\ sent = <<>>

Start(d) ==
    /\ doc = d
    /\ idx = 1
    /\ pc = "loop"
    /\ out = <<>>
    /\ current_acct = None
    /\ extraction_pages = <<>>
    /\ attachment_pages = <<>>
    /\ log = <<>>
    /\ printed = <<>>

Init ==
    /\ \E d \in Docs : Start(d)
    /\ run = 1
    /\ prev_printed = <<>>
    /\ enc_in = <<>>
    /\ enc_out = <<>>
    /\ ext_fields = <<>>
    /\ ext_lines = <<>>
    /\ ext_accounts = <<>>
    /\ mk_lines = <<>>
    /\ mk_account = <<>>
    /\ SliceIdle
    /\ SplitIdle
    /\ MailIdle

AtPage == pc = "loop" /\ idx <= Len(doc)

\* line 118 raises: the exception leaves the loop and ends the script
ExtractionFails ==
    /\ AtPage
    /\ Raises(doc[idx])
    /\ pc' = "failed"
    /\ UNCHANGED <<doc, idx, out, current_acct, extraction_pages,
                   attachment_pages, log, printed, run, prev_printed>>
    /\ UNCHANGED <<encVars, extVars, mkVars, decVars, sliceVars, splitVars, mailVars>>

\* branch 1 without  attachment_pages = []
NewAccount_keeps_attachments ==
    /\ AtPage
    /\ ~Raises(doc[idx])
    /\ LET accounts_on_page == find_account_numbers(doc[idx]) IN
        /\ new_account_detected(accounts_on_page, current_acct)
        /\ out' = IF current_acct # None
                  THEN DictSet(out, Entry(current_acct, extraction_pages,
                                          attachment_pages))
                  ELSE out
        /\ \E a \in pop(accounts_on_page) :
            /\ current_acct' = a
            /\ log' = Append(log, [kind |-> "new", acct |-> a, page |-> idx])
        /\ extraction_pages' = <<idx>>
    /\ idx' = idx + 1
    /\ UNCHANGED <<doc, pc, attachment_pages, printed, run, prev_printed>>
    /\ UNCHANGED <<encVars, extVars, mkVars, decVars, sliceVars, splitVars, mailVars>>

\* 1. new account detected
NewAccount ==
    /\ AtPage
    /\ ~Raises(doc[idx])
    /\ LET accounts_on_page == find_account_numbers(doc[idx]) IN
        /\ new_account_detected(accounts_on_page, current_acct)
        /\ out' = IF current_acct # None
                  THEN DictSet(out, Entry(current_acct, extraction_pages,
                                          attachment_pages))
                  ELSE out
        /\ \E a \in pop(accounts_on_page) :
            /\ current_acct' = a
            /\ log' = Append(log, [kind |-> "new", acct |-> a, page |-> idx])
        /\ extraction_pages' = <<idx>>
        /\ attachment_pages' = <<>>
    /\ idx' = idx + 1
    /\ UNCHANGED <<doc, pc, printed, run, prev_printed>>
    /\ UNCHANGED <<encVars, extVars, mkVars, decVars, sliceVars, splitVars, mailVars>>

\* 2. same account continues
SameAccount ==
    /\ AtPage
    /\ ~Raises(doc[idx])
    /\ LET accounts_on_page == find_account_numbers(doc[idx]) IN
        /\ ~new_account_detected(accounts_on_page, current_acct)
        /\ current_acct # None
        /\ LET lists == continue_account(extraction_pages, attachment_pages,
                                         accounts_on_page, idx) IN
            /\ extraction_pages' = lists[1]
            /\ attachment_pages' = lists[2]
    /\ idx' = idx + 1
    /\ UNCHANGED <<doc, pc, out, current_acct, log, printed, run, prev_printed>>
    /\ UNCHANGED <<encVars, extVars, mkVars, decVars, sliceVars, splitVars, mailVars>>

\* branch 3 taken for an attachment page: the page is appended, not skipped
NoAccountYet_appends ==
    /\ AtPage
    /\ ~Raises(doc[idx])
    /\ LET accounts_on_page == find_account_numbers(doc[idx]) IN
        /\ ~new_account_detected(accounts_on_page, current_acct)
        /\ current_acct = None
    /\ attachment_pages' = Append(attachment_pages, idx)
    /\ idx' = idx + 1
    /\ UNCHANGED <<doc, pc, out, current_acct, extraction_pages, log,
                   printed, run, prev_printed>>
    /\ UNCHANGED <<encVars, extVars, mkVars, decVars, sliceVars, splitVars, mailVars>>

\* 3. no account seen yet
NoAccountYet ==
    /\ AtPage
    /\ ~Raises(doc[idx])
    /\ LET accounts_on_page == find_account_numbers(doc[idx]) IN
        /\ ~new_account_detected(accounts_on_page, current_acct)
        /\ current_acct = None
    /\ log' = Append(log, [kind |-> "skip", acct |-> None, page |-> idx])
    /\ idx' = idx + 1
    /\ UNCHANGED <<doc, pc, out, current_acct, extraction_pages,
                   attachment_pages, printed, run, prev_printed>>
    /\ UNCHANGED <<encVars, extVars, mkVars, decVars, sliceVars, splitVars, mailVars>>

\* step 4 without  if current_acct is not None
FlushLast_unconditional ==
    /\ pc = "loop"
    /\ idx > Len(doc)
    /\ out' = DictSet(out, Entry(current_acct, extraction_pages,
                                 attachment_pages))
    /\ printed' = << Json(out') >>
    /\ pc' = "done"
    /\ UNCHANGED <<doc, idx, current_acct, extraction_pages, attachment_pages,
                   log, run, prev_printed>>
    /\ UNCHANGED <<encVars, extVars, mkVars, decVars, sliceVars, splitVars, mailVars>>

\* step 4 left out: the result is printed without the last account
FlushLast_skipped ==
    /\ pc = "loop"
    /\ idx > Len(doc)
    /\ printed' = << Json(out) >>
    /\ pc' = "done"
    /\ UNCHANGED <<doc, idx, out, current_acct, extraction_pages,
                   attachment_pages, log, run, prev_printed>>
    /\ UNCHANGED <<encVars, extVars, mkVars, decVars, sliceVars, splitVars, mailVars>>

\* 4. flush last account, then print(json.dumps(out))
FlushLast ==
    /\ pc = "loop"
    /\ idx > Len(doc)
    /\ out' = IF current_acct # None
              THEN DictSet(out, Entry(current_acct, extraction_pages,
                                      attachment_pages))
              ELSE out
    /\ printed' = << Json(out') >>
    /\ pc' = "done"
    /\ UNCHANGED <<doc, idx, current_acct, extraction_pages, attachment_pages,
                   log, run, prev_printed>>
    /\ UNCHANGED <<encVars, extVars, mkVars, decVars, sliceVars, splitVars, mailVars>>

Next ==
    \/ ExtractionFails
    \/ NewAccount
    \/ SameAccount
    \/ NoAccountYet
    \/ FlushLast

Spec == Init /\ [][Next]_vars

----------------------------------------------------------------------------
(* The script run a second time over the same file. *)

Rerun ==
    /\ pc = "done"
    /\ run = 1
    /\ run' = 2
    /\ prev_printed' = printed
    /\ idx' = 1
    /\ pc' = "loop"
    /\ out' = <<>>
    /\ current_acct' = None
    /\ extraction_pages' = <<>>
    /\ attachment_pages' = <<>>
    /\ log' = <<>>
    /\ printed' = <<>>
    /\ UNCHANGED doc
    /\ UNCHANGED <<encVars, extVars, mkVars, decVars, sliceVars, splitVars, mailVars>>

NextTwice ==
    \/ ExtractionFails
    \/ NewAccount
    \/ SameAccount
    \/ NoAccountYet
    \/ FlushLast
    \/ Rerun

SpecTwice == Init /\ [][NextTwice]_vars

----------------------------------------------------------------------------
(* The range encoder on its own, over every ascending list of distinct    *)
(* page indices in 1..MaxPageNo.                                           *)

RECURSIVE SortedSeq(_)
SortedSeq(S) ==
    IF S = {} THEN <<>>
    ELSE LET m == CHOOSE x \in S : \A y \in S : x <= y
         IN  <<m>> \o SortedSeq(S \ {m})

AscendingLists == { SortedSeq(S) : S \in SUBSET (1..MaxPageNo) }

InitEnc ==
    /\ enc_in \in AscendingLists
    /\ enc_out = <<>>
    /\ doc = <<>>
    /\ idx = 1
    /\ pc = "idle"
    /\ out = <<>>
    /\ current_acct = None
    /\ extraction_pages = <<>>
    /\ attachment_pages = <<>>
    /\ log = <<>>
    /\ printed = <<>>
    /\ run = 1
    /\ prev_printed = <<>>
    /\ ext_fields = <<>>
    /\ ext_lines = <<>>
    /\ ext_accounts = <<>>
    /\ mk_lines = <<>>
    /\ mk_account = <<>>
    /\ SliceIdle
    /\ SplitIdle
    /\ MailIdle

Encode ==
    /\ pc = "idle"
    /\ enc_out = <<>>
    /\ enc_out' = << _range_str(enc_in) >>
    /\ UNCHANGED enc_in
    /\ UNCHANGED <<foldVars, extVars, mkVars, decVars, sliceVars, splitVars, mailVars>>

\* str.split(sep): the pieces of s between the occurrences of sep
RECURSIVE split(_, _)
split(s, sep) ==
    IF \A i \in 1..Len(s) : s[i] # sep THEN << s >>
    ELSE LET k == CHOOSE i \in 1..Len(s) :
                      s[i] = sep /\ \A j \in 1..(i - 1) : s[j] # sep
         IN  << SubSeq(s, 1, k - 1) >> \o split(SubSeq(s, k + 1, Len(s)), sep)

\* int(s) of a string of decimal digits (the only strings _range_str puts
\* around a "-")
RECURSIVE int(_)
int(s) ==
    IF Len(s) = 1 THEN CHOOSE d \in 0..9 : DigitChars[d + 1] = s[1]
    ELSE 10 * int(SubSeq(s, 1, Len(s) - 1))
         + (CHOOSE d \in 0..9 : DigitChars[d + 1] = s[Len(s)])

\* list(range(a, b)): a, a+1, ..., b-1
range(a, b) == [ i \in 1..(b - a) |-> a + i - 1 ]

\* parse_range without the + 1 on the upper end
parse_range_exclusive(rng) ==
    IF rng = <<>> THEN <<>>
    ELSE LET parts == split(rng, "-") IN
         IF Len(parts) = 1 THEN << int(parts[1]) >>
         ELSE range(int(parts[1]), int(parts[2]))

\* parse_range: '3-5' -> [3,4,5] | '6' -> [6] | '' -> []
parse_range(rng) ==
    IF rng = <<>> THEN <<>>
    ELSE LET parts == split(rng, "-") IN
         IF Len(parts) = 1 THEN << int(parts[1]) >>
         ELSE range(int(parts[1]), int(parts[2]) + 1)

\* the descriptor read back by the slicing stage
Decode ==
    /\ pc = "idle"
    /\ enc_out # <<>>
    /\ dec_out = <<>>
    /\ dec_out' = << parse_range(enc_out[1]) >>
    /\ UNCHANGED <<enc_in, enc_out, uploaded_files>>
    /\ UNCHANGED <<foldVars, extVars, mkVars, splitVars, mailVars>>

NextEnc ==
    \/ Encode
    \/ Decode

SpecEnc == InitEnc /\ [][NextEnc]_vars

----------------------------------------------------------------------------
(* The slicing stage, uploadToS3.py: it reads the JSON the fold printed    *)
(* and builds, per account, one PDF of the extraction pages and one of the *)
(* attachment pages.                                                       *)

\* build_pdf: the pages sorted(set(page_nums)) of the source, in that order
build_pdf(page_nums) == SortedSeq(Range(page_nums))

\* for account, ranges in plan.items(): parse both descriptors, and build a
\* PDF of each list that is not empty
uploadToS3_main ==
    /\ pc = "done"
    /\ uploaded_files = <<>>
    /\ LET plan == printed[1] IN
        uploaded_files' =
            << [ i \in 1..Len(plan) |->
                 [ account     |-> plan[i].key,
                   extraction  |-> build_pdf(parse_range(plan[i].extraction)),
                   attachments |-> build_pdf(parse_range(plan[i].attachments)) ] ] >>
    /\ UNCHANGED dec_out
    /\ UNCHANGED <<foldVars, encVars, extVars, mkVars, splitVars, mailVars>>

NextSlice ==
    \/ ExtractionFails
    \/ NewAccount
    \/ SameAccount
    \/ NoAccountYet
    \/ FlushLast
    \/ uploadToS3_main

SpecSlice == Init /\ [][NextSlice]_vars

----------------------------------------------------------------------------
(* Python str operations, on sequences of characters. *)

UpperCase == <<"A", "B", "C", "D", "E", "F", "G", "H", "I", "J", "K", "L", "M", "N", "O", "P", "Q", "R", "S", "T", "U", "V", "W", "X", "Y", "Z">>

LowerCase == <<"a", "b", "c", "d", "e", "f", "g", "h", "i", "j", "k", "l", "m", "n", "o", "p", "q", "r", "s", "t", "u", "v", "w", "x", "y", "z">>

Whitespace == {" ", "\t", "\n", "\r"}

IsDigit(c) == c \in Range(DigitChars)

\* str.lower(), one character
lower_char(c) ==
    IF \E i \in 1..26 : UpperCase[i] = c
    THEN LowerCase[CHOOSE i \in 1..26 : UpperCase[i] = c]
    ELSE c

\* str.lower()
lower(text) == [ i \in 1..Len(text) |-> lower_char(text[i]) ]

\* label in k
Contains(k, label) ==
    \E i \in 1..(Len(k) - Len(label) + 1) :
        SubSeq(k, i, i + Len(label) - 1) = label

\* text.startswith(w, i - 1)
StartsWithAt(text, i, w) ==
    /\ i + Len(w) - 1 <= Len(text)
    /\ SubSeq(text, i, i + Len(w) - 1) = w

\* " ".join(texts)
RECURSIVE join(_)
join(texts) ==
    IF texts = <<>> THEN <<>>
    ELSE IF Len(texts) = 1 THEN texts[1]
    ELSE texts[1] \o <<" ">> \o join(Tail(texts))

\* str.lstrip() and str.rstrip()
RECURSIVE lstrip(_)
lstrip(text) ==
    IF text # <<>> /\ text[1] \in Whitespace THEN lstrip(Tail(text)) ELSE text

RECURSIVE rstrip(_)
rstrip(text) ==
    IF text # <<>> /\ text[Len(text)] \in Whitespace
    THEN rstrip(SubSeq(text, 1, Len(text) - 1))
    ELSE text

\* str.strip()
strip(text) == lstrip(rstrip(text))

\* str.rstrip(":")
RECURSIVE rstrip_colon(_)
rstrip_colon(text) ==
    IF text # <<>> /\ text[Len(text)] = ":"
    THEN rstrip_colon(SubSeq(text, 1, Len(text) - 1))
    ELSE text

----------------------------------------------------------------------------
(* find_account_numbers of pdfBreaker.py, on the Textract response. *)

\* ACCOUNT_LABELS, as written in the source (with the space)
ACCOUNT_LABELS ==
    { <<"a", "c", "c", "o", "u", "n", "t", " ", "n", "u", "m", "b", "e", "r">>,
      <<"a", "c", "c", "o", "u", "n", "t", " ", "n", "o">>,
      <<"a", "c", "c", "o", "u", "n", "t", " ", "#">>,
      <<"a", "c", "c", "t", " ", "n", "u", "m", "b", "e", "r">>,
      <<"a", "c", "c", "t", " ", "n", "o">>,
      <<"a", "c", "c", "t", " ", "#">> }

\* re.sub(r"[^a-z0-9]", "", text.lower())
_normalise_key(text) ==
    SelectSeq(lower(text), LAMBDA c : c \in Range(LowerCase) \/ IsDigit(c))

\* _get_kv_map: the dict {normalised key: value text}; a later field with the
\* same normalised key replaces the earlier one
RECURSIVE _get_kv_map(_)
_get_kv_map(fields) ==
    IF fields = <<>> THEN <<>>
    ELSE LET before == _get_kv_map(SubSeq(fields, 1, Len(fields) - 1))
             item   == [ key |-> _normalise_key(fields[Len(fields)].key),
                         val |-> fields[Len(fields)].val ]
         IN  DictSet(before, item)

\* re.sub(r"\D", "", v)
digits_of(v) == SelectSeq(v, IsDigit)

\* 1. FORMS: for k, v in kv.items(): if any(label in k ...): digits; 6..20
form_accounts(kv) ==
    { digits_of(kv[i].val) :
        i \in { j \in 1..Len(kv) :
                  /\ \E label \in ACCOUNT_LABELS : Contains(kv[j].key, label)
                  /\ 6 <= Len(digits_of(kv[j].val))
                  /\ Len(digits_of(kv[j].val)) <= 20 } }

\* \s*  from position i: the first position that holds no whitespace
RECURSIVE skip_spaces(_, _)
skip_spaces(text, i) ==
    IF i <= Len(text) /\ text[i] \in Whitespace
    THEN skip_spaces(text, i + 1)
    ELSE i

\* the number of digits from position i on
RECURSIVE digit_run(_, _)
digit_run(text, i) ==
    IF i <= Len(text) /\ IsDigit(text[i]) THEN 1 + digit_run(text, i + 1) ELSE 0

NoMatch == [ok |-> FALSE, end |-> 0, group |-> <<>>]

\* \s*[:.-]?\s*(\d{6,20})  from position i; \d{6,20} is greedy and takes at
\* most 20 digits
match_tail(text, i) ==
    LET a == skip_spaces(text, i)
        b == IF a <= Len(text) /\ text[a] \in {":", ".", "-"} THEN a + 1 ELSE a
        c == skip_spaces(text, b)
        n == digit_run(text, c)
        m == IF n > 20 THEN 20 ELSE n
    IN  IF n >= 6
        THEN [ok |-> TRUE, end |-> c + m, group |-> SubSeq(text, c, c + m - 1)]
        ELSE NoMatch

\* (?:#|no|number): the alternatives in the order the regex tries them
KeywordAlternatives == << <<"#">>, <<"n", "o">>, <<"n", "u", "m", "b", "e", "r">> >>

\* (?i)account\s*(?:#|no|number)\s*[:.-]?\s*(\d{6,20})  matched at position i:
\* the first alternative after which the rest matches; (?i) compares the
\* letters of the pattern with the lowered text
match_at(text, lowered, i) ==
    IF ~StartsWithAt(lowered, i, <<"a", "c", "c", "o", "u", "n", "t">>) THEN NoMatch
    ELSE LET j == skip_spaces(text, i + 7)
             works == { a \in 1..3 :
                          /\ StartsWithAt(lowered, j, KeywordAlternatives[a])
                          /\ match_tail(text,
                                 j + Len(KeywordAlternatives[a])).ok }
         IN  IF works = {} THEN NoMatch
             ELSE LET a == CHOOSE x \in works : \A y \in works : x <= y
                  IN  match_tail(text, j + Len(KeywordAlternatives[a]))

\* set(re.findall(pattern, text)): leftmost matches that do not overlap
RECURSIVE findall(_, _, _)
findall(text, lowered, i) ==
    IF i > Len(text) THEN {}
    ELSE LET m == match_at(text, lowered, i)
         IN  IF m.ok THEN {m.group} \cup findall(text, lowered, m.end)
                     ELSE findall(text, lowered, i + 1)

\* 2. fallback: the regex over the LINE texts joined by spaces
regex_accounts(lines) ==
    LET raw_text == join(lines) IN findall(raw_text, lower(raw_text), 1)

\* find_account_numbers without step 2
find_account_numbers_no_fallback(fields, lines) ==
    form_accounts(_get_kv_map(fields))

\* find_account_numbers, from the Textract response to the set it returns
find_account_numbers_of_response(fields, lines) ==
    LET accounts == form_accounts(_get_kv_map(fields))
    IN  IF accounts = {} THEN regex_accounts(lines) ELSE accounts

(* The pages handed to it: form fields and lines drawn from samples. *)

KeyTexts ==
    { <<"A", "c", "c", "o", "u", "n", "t", " ", "N", "u", "m", "b", "e", "r", ":">>,
      <<"A", "c", "c", "t", " ", "N", "o">>,
      <<"a", "c", "c", "o", "u", "n", "t", " ", "#">>,
      <<"N", "a", "m", "e">> }

Digits20 == <<"1", "2", "3", "4", "5", "6", "7", "8", "9", "0", "1", "2", "3", "4", "5", "6", "7", "8", "9", "0">>

ValueTexts ==
    { <<"1", "2", "3", "4", "5", "6">>,
      <<"1", "2", "3", "4", "5">>,
      <<"1", "2", "-", "3", "4", "-", "5", "6", "7">>,
      Digits20,
      Digits20 \o <<"1">> }

LineTexts ==
    { <<"A", "c", "c", "o", "u", "n", "t", " ", "N", "u", "m", "b", "e", "r", ":", " ", "1", "2", "3", "4", "5", "6">>,
      <<"a", "c", "c", "o", "u", "n", "t", " ", "n", "o", " ", "7", "6", "5", "4", "3", "2", "1", " ", "A", "c", "c", "o", "u", "n", "t", "#", "2", "2", "2", "2", "2", "2">>,
      <<"A", "C", "C", "O", "U", "N", "T", " ", "#", " ", "1", "2", "3", "4", "5">>,
      <<"A", "c", "c", "t", " ", "N", "o", " ", "5", "5", "5", "5", "5", "5">>,
      <<"a", "c", "c", "o", "u", "n", "t", " ", "n", "u", "m", "b", "e", "r", " ">> \o Digits20 \o <<"1">> }

FormFields == [key : KeyTexts, val : ValueTexts]

InitExtract ==
    /\ ext_fields \in UNION { [1..n -> FormFields] : n \in 0..MaxFields }
    /\ ext_lines \in UNION { [1..n -> LineTexts] : n \in 0..MaxLines }
    /\ ext_accounts = <<>>
    /\ pc = "extract"
    /\ doc = <<>>
    /\ idx = 1
    /\ out = <<>>
    /\ current_acct = None
    /\ extraction_pages = <<>>
    /\ attachment_pages = <<>>
    /\ log = <<>>
    /\ printed = <<>>
    /\ run = 1
    /\ prev_printed = <<>>
    /\ enc_in = <<>>
    /\ enc_out = <<>>
    /\ mk_lines = <<>>
    /\ mk_account = <<>>
    /\ SliceIdle
    /\ SplitIdle
    /\ MailIdle

Extract ==
    /\ pc = "extract"
    /\ ext_accounts = <<>>
    /\ ext_accounts' = << find_account_numbers_of_response(ext_fields, ext_lines) >>
    /\ UNCHANGED <<ext_fields, ext_lines>>
    /\ UNCHANGED <<foldVars, encVars, mkVars, decVars, sliceVars, splitVars, mailVars>>

NextExtract == Extract

SpecExtract == InitExtract /\ [][NextExtract]_vars

----------------------------------------------------------------------------
(* extract_account_number of pdfBreaker2.py (fixed-marker mode). *)

MARKER == <<"A", "C", "C", "O", "U", "N", "T", " ", "N", "U", "M", "B", "E", "R">>

NotFound == [found |-> FALSE, text |-> <<>>]

\* the index of the first stripped line that is the marker and is not the
\* last line, or 0
first_marker(lines) ==
    LET hits == { i \in 1..Len(lines) :
                    rstrip_colon(lines[i]) = MARKER /\ i + 1 <= Len(lines) }
    IN  IF hits = {} THEN 0
        ELSE CHOOSE i \in hits : \A j \in hits : i <= j

\* extract_account_number returning the marker line itself
extract_account_number_same_line(raw) ==
    LET lines == [ i \in 1..Len(raw) |-> strip(raw[i]) ]
        at    == first_marker(lines)
    IN  IF at = 0 THEN NotFound
        ELSE [found |-> TRUE, text |-> strip(lines[at])]

\* extract_account_number: the stripped line after the first marker line,
\* or None
extract_account_number(raw) ==
    LET lines == [ i \in 1..Len(raw) |-> strip(raw[i]) ]
        at    == first_marker(lines)
    IN  IF at = 0 THEN NotFound
        ELSE [found |-> TRUE, text |-> strip(lines[at + 1])]

PageLineTexts ==
    { <<"A", "C", "C", "O", "U", "N", "T", " ", "N", "U", "M", "B", "E", "R">>,
      <<" ", "A", "C", "C", "O", "U", "N", "T", " ", "N", "U", "M", "B", "E", "R", ":", ":", " ">>,
      <<"A", "C", "C", "O", "U", "N", "T", " ", "N", "U", "M", "B", "E", "R", " ", ":">>,
      <<"A", "c", "c", "o", "u", "n", "t", " ", "N", "u", "m", "b", "e", "r", ":">>,
      <<" ", " ", "2", "1", "0", "8", "6", "3", "2", "5", "4", " ">>,
      <<"P", "a", "g", "e", " ", "1">>,
      <<>> }

InitMarker ==
    /\ mk_lines \in UNION { [1..n -> PageLineTexts] : n \in 0..MaxTextLines }
    /\ mk_account = <<>>
    /\ pc = "marker"
    /\ doc = <<>>
    /\ idx = 1
    /\ out = <<>>
    /\ current_acct = None
    /\ extraction_pages = <<>>
    /\ attachment_pages = <<>>
    /\ log = <<>>
    /\ printed = <<>>
    /\ run = 1
    /\ prev_printed = <<>>
    /\ enc_in = <<>>
    /\ enc_out = <<>>
    /\ ext_fields = <<>>
    /\ ext_lines = <<>>
    /\ ext_accounts = <<>>
    /\ SliceIdle
    /\ SplitIdle
    /\ MailIdle

ExtractMarker ==
    /\ pc = "marker"
    /\ mk_account = <<>>
    /\ mk_account' = << extract_account_number(mk_lines) >>
    /\ UNCHANGED mk_lines
    /\ UNCHANGED <<foldVars, encVars, extVars, decVars, sliceVars, splitVars, mailVars>>

NextMarker == ExtractMarker

SpecMarker == InitMarker /\ [][NextMarker]_vars

----------------------------------------------------------------------------
(* Vocabulary of the properties. *)

Pages == 1..Len(doc)

\* the pages the loop skipped with "no account number found"
Dropped == { log[i].page : i \in { j \in 1..Len(log) : log[j].kind = "skip" } }

\* how many page lists of the entries of d hold page p
Occurrences(d, p) ==
    Cardinality({ i \in 1..Len(d) : p \in Range(d[i].extraction_list) })
    + Cardinality({ i \in 1..Len(d) : p \in Range(d[i].attachment_list) })

\* every page the fold has put somewhere or skipped
Folded ==
    Range(extraction_pages) \cup Range(attachment_pages) \cup Dropped
    \cup UNION { Range(out[i].extraction_list) \cup Range(out[i].attachment_list)
                 : i \in 1..Len(out) }
    \cup { log[i].page : i \in 1..Len(log) }

\* account numbers in their sort order (digit strings of one length: the
\* lexicographic and the numeric order agree)
AcctValue(a) ==
    CASE a = "111" -> 111
      [] a = "123" -> 123
      [] a = "222" -> 222
      [] a = "456" -> 456

Smallest(C) == CHOOSE a \in C : \A b \in C : AcctValue(a) <= AcctValue(b)

DigitValue(c) == CHOOSE d \in 0..9 : DigitChars[d + 1] = c

RECURSIVE DecValue(_)
DecValue(s) ==
    IF s = <<>> THEN 0
    ELSE 10 * DecValue(SubSeq(s, 1, Len(s) - 1)) + DigitValue(s[Len(s)])

\* s is the decimal numeral of n: digits only, no leading zero, value n
IsDecimalOf(s, n) ==
    /\ s # <<>>
    /\ \A i \in 1..Len(s) : s[i] \in Range(DigitChars)
    /\ Len(s) > 1 => s[1] # "0"
    /\ DecValue(s) = n

JsonEntry(k, e, a) == [key |-> k, extraction |-> e, attachments |-> a]

----------------------------------------------------------------------------
(* C1. Once the fold has ended, every page index 1..N is accounted for     *)
(* exactly once: it is a page dropped by Rule D, or it lies in the         *)
(* extraction or attachment list of exactly one entry of the final result. *)
(* Fails on the code: storing a run under a key that is already in `out`   *)
(* replaces the earlier run, whose pages are then in no entry.             *)
C1_EveryPageExactlyOnce ==
    pc = "done" =>
        \A p \in Pages :
            Occurrences(out, p) + (IF p \in Dropped THEN 1 ELSE 0) = 1

(* C2. When Rule A fires on a page whose candidate set has more than one   *)
(* element, the new current account is the smallest element of the set.    *)
(* Fails on the code: set.pop() returns an arbitrary element.              *)
C2_PicksSmallest ==
    \A i \in 1..Len(log) :
        (log[i].kind = "new" /\ Cardinality(doc[log[i].page].accts) > 1)
            => log[i].acct = Smallest(doc[log[i].page].accts)

(* C3. Folding the same sequence of candidate sets twice yields identical  *)
(* results: the same keys in the same order with the same descriptors.     *)
(* Fails on the code for a multi-element candidate set, through C2's pick. *)
C3_SameResultTwice ==
    (run = 2 /\ pc = "done") => printed = prev_printed

(* C4. Every account run that was established as a boundary has its own    *)
(* entry in the final result: when a number that was already flushed       *)
(* becomes a boundary again, the earlier entry is still there.             *)
(* Fails on the code: out[current_acct] = ... replaces the earlier entry.  *)
C4_EarlierEntryKept ==
    pc = "done" =>
        \A i \in 1..Len(log) :
            log[i].kind = "new" =>
                \E j \in 1..Len(out) :
                    /\ out[j].key = log[i].acct
                    /\ out[j].extraction_list[1] = log[i].page

(* C5. If obtaining the candidate set fails on page k, the fold returns    *)
(* the entries completed through page k-1 and an unresolved-tail marker    *)
(* for pages k..N.                                                         *)
(* Fails on the code: the exception ends the script, nothing is printed.   *)
C5_PartialResultOnFailure ==
    pc = "failed" =>
        /\ printed = << Json(IF current_acct # None
                             THEN DictSet(out, Entry(current_acct,
                                                     extraction_pages,
                                                     attachment_pages))
                             ELSE out) >>
        /\ \E i \in 1..Len(log) :
            log[i].kind = "unresolved" /\ log[i].page = idx

(* C6. A page whose signal extraction fails is never folded as a page with *)
(* an empty candidate set: it is in no attachment list, it is not dropped, *)
(* and no page after it is folded.                                         *)
C6_FailedPageNeverFolded ==
    \A p \in Pages :
        ~doc[p].ok =>
            /\ idx <= p
            /\ p \notin Dropped
            /\ \A q \in Folded : q < p

C6_Witness ==
    /\ pc = "failed"
    /\ 1 < idx
    /\ idx < Len(doc)
    /\ Folded = 1..(idx - 1)

(* C7. The range encoder maps an ascending list of distinct page indices   *)
(* to the empty string when it is empty, to the decimal numeral of n for   *)
(* [n], and to <first>-<last> for two or more elements, whatever lies      *)
(* between: [3,4,5] gives "3-5" and [2,9] gives "2-9".                     *)
C7_RangeEncoding ==
    enc_out # <<>> =>
        LET s == enc_out[1]
            n == Len(enc_in)
        IN  /\ n = 0 => s = <<>>
            /\ n = 1 => IsDecimalOf(s, enc_in[1])
            /\ n > 1 =>
                \E k \in 1..Len(s) :
                    /\ s[k] = "-"
                    /\ IsDecimalOf(SubSeq(s, 1, k - 1), enc_in[1])
                    /\ IsDecimalOf(SubSeq(s, k + 1, Len(s)), enc_in[n])
            /\ enc_in = <<7>> => s = <<"7">>
            /\ enc_in = <<3, 4, 5>> => s = <<"3", "-", "5">>
            /\ enc_in = <<2, 9>> => s = <<"2", "-", "9">>

C7_Witness ==
    /\ enc_in = <<2, 9>>
    /\ enc_out = << <<"2", "-", "9">> >>

(* C8. Scenario A, [{}, {123}, {123}, {}, {}, {456}, {}], yields exactly   *)
(* 123 with extraction "2-3" and attachments "4-5", then 456 with          *)
(* extraction "6" and attachments "7"; page 1 is dropped with a diagnostic.*)
C8_ScenarioA ==
    (doc = ScenarioA /\ pc = "done") =>
        /\ printed = << << JsonEntry("123", <<"2", "-", "3">>, <<"4", "-", "5">>),
                           JsonEntry("456", <<"6">>, <<"7">>) >> >>
        /\ Dropped = {1}
        /\ log[1] = [kind |-> "skip", acct |-> None, page |-> 1]

C8_Witness ==
    /\ doc = ScenarioA
    /\ pc = "done"
    /\ Len(printed) = 1
    /\ Len(printed[1]) = 2

(* C9. Scenario B, [{111}, {111,222}, {222}]: Rule A fires on page 2,      *)
(* flushes 111 with extraction "1" and no attachments, makes 222 current   *)
(* from page 2, and ends with 111: "1" and 222: "2-3", no attachments.     *)
(* Fails on the code: the pick on page 2 may return 111 (C2).              *)
C9_ScenarioB ==
    doc = ScenarioB =>
        /\ idx > 2 =>
            /\ Json(out)[1] = JsonEntry("111", <<"1">>, <<>>)
            /\ log[2] = [kind |-> "new", acct |-> "222", page |-> 2]
        /\ pc = "done" =>
            printed = << << JsonEntry("111", <<"1">>, <<>>),
                            JsonEntry("222", <<"2", "-", "3">>, <<>>) >> >>

(* C10. A document of N >= 1 pages that all carry the same single account  *)
(* number yields exactly one entry, whose extraction descriptor covers     *)
(* pages 1 through N and whose attachments descriptor is empty.            *)
SameAccountOnEveryPage(a) ==
    /\ Len(doc) >= 1
    /\ \A p \in Pages : doc[p] = Page({a})

C10_OneAccountWholeDocument ==
    \A a \in Accounts :
        (SameAccountOnEveryPage(a) /\ pc = "done") =>
            printed = << << JsonEntry(a,
                                IF Len(doc) = 1 THEN <<"1">>
                                ELSE <<"1", "-">> \o str(Len(doc)),
                                <<>>) >> >>

C10_Witness ==
    /\ SameAccountOnEveryPage("222")
    /\ Len(doc) >= 3
    /\ pc = "done"
    /\ Len(printed) = 1

----------------------------------------------------------------------------
(* Vocabulary of the rules of the fold. *)

Candidates == doc[idx].accts

\* the pages at which account a was established as the current account
BoundaryPages(a) ==
    { log[i].page :
        i \in { j \in 1..Len(log) : log[j].kind = "new" /\ log[j].acct = a } }

FirstBoundary(a) ==
    CHOOSE p \in BoundaryPages(a) : \A q \in BoundaryPages(a) : p <= q

\* d2 is d after account acct was written with the encodings of ext and att:
\* acct has that entry, no other key came or went, every other entry is kept
WrittenTo(d, d2, acct, ext, att) ==
    /\ JsonEntry(acct, _range_str(ext), _range_str(att)) \in Range(Json(d2))
    /\ Keys(d2) = Keys(d) \cup {acct}
    /\ Len(d2) = Cardinality(Keys(d2))
    /\ \A e \in Range(Json(d)) : e.key # acct => e \in Range(Json(d2))

RuleAFires ==
    /\ AtPage
    /\ doc[idx].ok
    /\ Candidates # {}
    /\ Candidates # {current_acct}

ContinuationFires ==
    /\ AtPage
    /\ doc[idx].ok
    /\ current_acct # None
    /\ Candidates = {} \/ Candidates = {current_acct}

RuleDFires ==
    /\ AtPage
    /\ doc[idx].ok
    /\ current_acct = None
    /\ Candidates = {}

EndOfInput == pc = "loop" /\ idx > Len(doc)

----------------------------------------------------------------------------
C12_OrderedByFirstBoundary ==
    pc = "done" =>
        \A i, j \in 1..Len(out) :
            (i < j) <=> (FirstBoundary(out[i].key) < FirstBoundary(out[j].key))

C12_Witness ==
    /\ pc = "done"
    /\ Len(out) = 2
    /\ Cardinality(BoundaryPages(out[1].key)) = 2
    /\ \E p \in BoundaryPages(out[1].key) : FirstBoundary(out[2].key) < p

(* C16. A page is dropped only while no account has been established:      *)
(* once current_acct is set it is never None again, every page folded      *)
(* after that goes to the extraction or the attachment list, and every     *)
(* dropped page lies before the first boundary.                            *)
C16_DropOnlyBeforeFirstAccount ==
    [][ /\ current_acct # None => current_acct' # None
        /\ (current_acct # None /\ idx' = idx + 1) =>
            /\ Dropped' = Dropped
            /\ idx \in Range(extraction_pages') \cup Range(attachment_pages')
        /\ \A p \in Dropped' : \A i \in 1..Len(log') :
            log'[i].kind = "new" => p < log'[i].page
      ]_vars

C16_Witness ==
    /\ current_acct # None
    /\ Dropped # {}
    /\ attachment_pages # <<>>
    /\ Len(out) >= 1

(* C17. Rule A: on a page whose candidate set is non-empty and differs     *)
(* from {current account} (no account active yet, or the set holds the     *)
(* current number and another one), the fold writes the previous account,  *)
(* if any, with the encodings of the lists accumulated so far, then makes  *)
(* a member of the set current, with extraction list [this page] and an    *)
(* empty attachment list.                                                   *)
C17_RuleA ==
    [][ RuleAFires =>
        /\ IF current_acct # None
           THEN WrittenTo(out, out', current_acct, extraction_pages,
                          attachment_pages)
           ELSE out' = out
        /\ current_acct' \in Candidates
        /\ extraction_pages' = <<idx>>
        /\ attachment_pages' = <<>>
        /\ idx' = idx + 1
      ]_vars

C17_Witness ==
    /\ pc = "loop"
    /\ idx > 2
    /\ Cardinality(doc[idx - 1].accts) = 2
    /\ doc[idx - 2].accts = {}
    /\ extraction_pages = <<idx - 1>>
    /\ attachment_pages = <<>>
    /\ \E j \in 1..Len(out) :
        out[j].key \in doc[idx - 1].accts /\ out[j].attachment_list # <<>>

(* C18. Rules B and C: on a page where an account is active and no         *)
(* boundary fires, the page is appended to exactly one accumulator, the    *)
(* extraction list when the candidate set is {current account} and the     *)
(* attachment list when it is empty; the current account, the other        *)
(* accumulator and the result do not change.                               *)
C18_RulesBC ==
    [][ ContinuationFires =>
        /\ Candidates = {current_acct} =>
            /\ extraction_pages' = Append(extraction_pages, idx)
            /\ attachment_pages' = attachment_pages
        /\ Candidates = {} =>
            /\ attachment_pages' = Append(attachment_pages, idx)
            /\ extraction_pages' = extraction_pages
        /\ current_acct' = current_acct
        /\ out' = out
        /\ idx' = idx + 1
      ]_vars

C18_Witness ==
    /\ current_acct # None
    /\ Len(extraction_pages) >= 2
    /\ Len(attachment_pages) >= 2

(* C19. Rule D: on a page with an empty candidate set while no account is  *)
(* active, the page is dropped, a diagnostic naming the page is printed,   *)
(* the fold goes on to the next page, and the current account, both        *)
(* accumulators and the result do not change.                              *)
C19_RuleD ==
    [][ RuleDFires =>
        /\ log' = Append(log, [kind |-> "skip", acct |-> None, page |-> idx])
        /\ idx' = idx + 1
        /\ pc' = "loop"
        /\ current_acct' = None
        /\ extraction_pages' = extraction_pages
        /\ attachment_pages' = attachment_pages
        /\ out' = out
      ]_vars

C19_Witness ==
    /\ pc = "loop"
    /\ Dropped = {1, 2}
    /\ idx = 3
    /\ current_acct = None

(* C20. At end of input an active account is written to the result with    *)
(* the encodings of its accumulated lists, exactly as a boundary flush     *)
(* would; if no account was ever established nothing is written.           *)
C20_FinalFlush ==
    [][ EndOfInput =>
        /\ IF current_acct # None
           THEN WrittenTo(out, out', current_acct, extraction_pages,
                          attachment_pages)
           ELSE out' = out /\ out = <<>>
        /\ printed' = << Json(out') >>
        /\ pc' = "done"
      ]_vars

C20_Witness ==
    /\ pc = "done"
    /\ current_acct # None
    /\ Len(extraction_pages) >= 2
    /\ attachment_pages # <<>>
    /\ Len(out) = 2

----------------------------------------------------------------------------
(* Vocabulary of the extractor properties. *)

\* the account-label variants of the specification, as they can occur in a
\* normalised key
LabelVariants ==
    { <<"a", "c", "c", "o", "u", "n", "t", "n", "u", "m", "b", "e", "r">>,
      <<"a", "c", "c", "o", "u", "n", "t", "n", "o">>,
      <<"a", "c", "c", "t", "n", "u", "m", "b", "e", "r">>,
      <<"a", "c", "c", "t", "n", "o">> }

\* raw[a..b] is raw without its leading and trailing whitespace
TrimBounds(raw, a, b) ==
    /\ a <= b + 1
    /\ \A i \in 1..Len(raw) : (i < a \/ i > b) => raw[i] \in Whitespace
    /\ a <= b => (raw[a] \notin Whitespace /\ raw[b] \notin Whitespace)

\* t is raw without its leading and trailing whitespace
IsTrimOf(t, raw) ==
    \E a \in 1..(Len(raw) + 1) : \E b \in 0..Len(raw) :
        TrimBounds(raw, a, b) /\ t = SubSeq(raw, a, b)

\* t is the marker followed by nothing but colons
IsMarkerLine(t) ==
    /\ Len(t) >= Len(MARKER)
    /\ SubSeq(t, 1, Len(MARKER)) = MARKER
    /\ \A i \in (Len(MARKER) + 1)..Len(t) : t[i] = ":"

\* line i of the page, trimmed, is a marker line
MarkerAt(i) ==
    \E a \in 1..(Len(mk_lines[i]) + 1) : \E b \in 0..Len(mk_lines[i]) :
        /\ TrimBounds(mk_lines[i], a, b)
        /\ IsMarkerLine(SubSeq(mk_lines[i], a, b))

\* the marker lines that have a following line
MarkersWithNext == { i \in 1..(Len(mk_lines) - 1) : MarkerAt(i) }

----------------------------------------------------------------------------
(* C13. The form-based extractor adds the digits of a value whenever the   *)
(* value's key, normalised, contains an account-label variant and the      *)
(* value has 6 to 20 digits; a value with fewer than 6 or more than 20     *)
(* digits is never added.                                                   *)
(* Fails on the code: ACCOUNT_LABELS are written with a space or '#', and  *)
(* a normalised key holds neither, so no key ever matches.                 *)
C13_FormFieldAdded ==
    ext_accounts # <<>> =>
        LET kv == _get_kv_map(ext_fields) IN
        \A i \in 1..Len(kv) :
            LET digits == digits_of(kv[i].val)
                n      == Len(digits)
            IN  /\ ( /\ \E label \in LabelVariants : Contains(kv[i].key, label)
                     /\ 6 <= n
                     /\ n <= 20 ) => digits \in ext_accounts[1]
                /\ (n < 6 \/ n > 20) => digits \notin ext_accounts[1]

(* C14. The regex fallback contributes only when the form-based step       *)
(* produced no candidate: the returned set is the form-based set when that *)
(* is non-empty, and otherwise the set of distinct regex matches over the  *)
(* joined lines (possibly empty).                                          *)
C14_FallbackOnlyWhenFormEmpty ==
    ext_accounts # <<>> =>
        LET form  == form_accounts(_get_kv_map(ext_fields))
            found == regex_accounts(ext_lines)
        IN  /\ form # {} => ext_accounts[1] = form
            /\ form = {} => ext_accounts[1] = found
            /\ (form = {} /\ ext_lines = << <<"A", "c", "c", "o", "u", "n", "t", " ", "N", "u", "m", "b", "e", "r", ":", " ", "1", "2", "3", "4", "5", "6">> >>) =>
                ext_accounts[1] = { <<"1", "2", "3", "4", "5", "6">> }
            /\ (form = {} /\ ext_lines = << <<"a", "c", "c", "o", "u", "n", "t", " ", "n", "o", " ", "7", "6", "5", "4", "3", "2", "1", " ", "A", "c", "c", "o", "u", "n", "t", "#", "2", "2", "2", "2", "2", "2">> >>) =>
                ext_accounts[1] = { <<"7", "6", "5", "4", "3", "2", "1">>, <<"2", "2", "2", "2", "2", "2">> }
            /\ (form = {} /\ ext_lines = << <<"A", "C", "C", "O", "U", "N", "T", " ", "#", " ", "1", "2", "3", "4", "5">> >>) =>
                ext_accounts[1] = {}
            /\ (form = {} /\ ext_lines = <<>>) => ext_accounts[1] = {}

C14_Witness ==
    /\ Len(ext_fields) = 1
    /\ ext_lines = << <<"a", "c", "c", "o", "u", "n", "t", " ", "n", "o", " ", "7", "6", "5", "4", "3", "2", "1", " ", "A", "c", "c", "o", "u", "n", "t", "#", "2", "2", "2", "2", "2", "2">> >>
    /\ ext_accounts = << { <<"7", "6", "5", "4", "3", "2", "1">>, <<"2", "2", "2", "2", "2", "2">> } >>

(* C15. In fixed-marker mode the extractor returns, for the first line     *)
(* that is "ACCOUNT NUMBER" once trailing colons are trimmed and that has  *)
(* a following line, that following line's trimmed text; it returns no     *)
(* candidate when there is no such line or the only marker line is the     *)
(* last line of the page.  Lines are taken with their surrounding          *)
(* whitespace removed.                                                     *)
C15_FixedMarker ==
    mk_account # <<>> =>
        IF MarkersWithNext = {}
        THEN mk_account[1].found = FALSE
        ELSE LET first == CHOOSE i \in MarkersWithNext :
                              \A j \in MarkersWithNext : i <= j
             IN  /\ mk_account[1].found = TRUE
                 /\ IsTrimOf(mk_account[1].text, mk_lines[first + 1])

C15_Witness ==
    /\ mk_lines = << <<"P", "a", "g", "e", " ", "1">>, <<" ", "A", "C", "C", "O", "U", "N", "T", " ", "N", "U", "M", "B", "E", "R", ":", ":", " ">>, <<" ", " ", "2", "1", "0", "8", "6", "3", "2", "5", "4", " ">> >>
    /\ mk_account = << [found |-> TRUE, text |-> <<"2", "1", "0", "8", "6", "3", "2", "5", "4">>] >>

----------------------------------------------------------------------------
(* Vocabulary of the properties about the page lists of an account. *)

StrictlyIncreasing(s) == \A i \in 1..(Len(s) - 1) : s[i] < s[i + 1]

\* s has more than one element and is not a run of consecutive integers
HasGap(s) == Len(s) > 1 /\ \E i \in 1..(Len(s) - 1) : s[i + 1] # s[i] + 1

\* the page lists of every flushed account and of the running one
PageListPairs ==
    { <<out[i].extraction_list, out[i].attachment_list>> : i \in 1..Len(out) }
    \cup { <<extraction_pages, attachment_pages>> }

(* C21. In every reachable state of the fold, the extraction list and the  *)
(* attachment list of every flushed account (and of the running account)   *)
(* are each strictly increasing and have no page in common.                *)
C21_ListsAscendingDisjoint ==
    \A pair \in PageListPairs :
        /\ StrictlyIncreasing(pair[1])
        /\ StrictlyIncreasing(pair[2])
        /\ Range(pair[1]) \cap Range(pair[2]) = {}

\* a flushed account with two extraction and two attachment pages
C21_Witness ==
    \E i \in 1..Len(out) :
        /\ Len(out[i].extraction_list) > 1
        /\ Len(out[i].attachment_list) > 1

(* C22, as stated. No flushed account has an attachment page index smaller *)
(* than one of its extraction page indices.                                *)
(* Fails: Rule B appends a page that shows the current number again to the *)
(* extraction list even when attachment pages lie before it.               *)
C22_AttachmentsAfterAllExtraction ==
    \A i \in 1..Len(out) :
        \A e \in Range(out[i].extraction_list) :
            \A a \in Range(out[i].attachment_list) : e < a

(* C22, amended. Every attachment page of a flushed account comes after    *)
(* the page on which that account's run started (its first extraction      *)
(* page).                                                                  *)
C22_AttachmentsAfterRunStart ==
    \A i \in 1..Len(out) :
        /\ out[i].extraction_list # <<>>
        /\ \A a \in Range(out[i].attachment_list) :
              out[i].extraction_list[1] < a

\* a flushed account whose extraction pages continue after an attachment page
C22_Witness ==
    \E i \in 1..Len(out) :
        \E e \in Range(out[i].extraction_list) :
            \E a \in Range(out[i].attachment_list) : a < e

----------------------------------------------------------------------------
(* Diagnostics of the fold.  The script prints two kinds of line: "New     *)
(* account ... starts at page ..." (kind "new") and "Page ...: no account  *)
(* number found - skipping" (kind "skip").                                 *)

\* the page was a boundary: "New account ... starts at page p" was printed
BoundaryAt(p) == \E j \in 1..Len(log) : log[j].kind = "new" /\ log[j].page = p

(* C24. Whenever a boundary page carries more than one candidate, the fold *)
(* emits an ambiguous-boundary diagnostic that lists every candidate of    *)
(* that page that was not chosen as the current account.                   *)
(* Fails on the code: the boundary branch prints the chosen number only.   *)
C24_DiscardedCandidatesReported ==
    \A i \in 1..Len(log) :
        (log[i].kind = "new" /\ Cardinality(doc[log[i].page].accts) > 1)
            => \E j \in 1..Len(log) :
                   /\ log[j].kind = "ambiguous"
                   /\ log[j].page = log[i].page
                   /\ log[j].discarded = doc[log[i].page].accts \ {log[i].acct}

(* C25. Whenever a flushed extraction or attachment list has an interior   *)
(* gap, a range-encoding-information-loss diagnostic is emitted for that   *)
(* flush.                                                                  *)
(* Fails on the code: the flush stores the descriptors and prints nothing. *)
C25_GapReported ==
    \A i \in 1..Len(out) :
        (HasGap(out[i].extraction_list) \/ HasGap(out[i].attachment_list))
            => \E j \in 1..Len(log) :
                   /\ log[j].kind = "range_loss"
                   /\ log[j].acct = out[i].key

(* C28, as stated. Two consecutive pages that carry the identical          *)
(* non-empty candidate set never have an account boundary between them,    *)
(* whatever the size of the set.                                           *)
(* Fails for a set of two: it differs from {current_acct}, so the second   *)
(* page is a boundary again.                                               *)
C28_SameSetNoBoundary ==
    \A p \in 1..(Len(doc) - 1) :
        (p + 1 < idx /\ doc[p].accts # {} /\ doc[p].accts = doc[p + 1].accts)
            => ~BoundaryAt(p + 1)

(* C28, amended. Two consecutive pages that carry the identical candidate  *)
(* set of exactly one element never have an account boundary between them. *)
C28_SameSingletonNoBoundary ==
    \A p \in 1..(Len(doc) - 1) :
        (p + 1 < idx /\ Cardinality(doc[p].accts) = 1
                    /\ doc[p].accts = doc[p + 1].accts)
            => ~BoundaryAt(p + 1)

\* pages 1 and 2 both show 111 alone and both are extraction pages of its run
C28_Witness ==
    /\ Len(doc) >= 2
    /\ doc[1].accts = {"111"}
    /\ doc[2].accts = {"111"}
    /\ idx = 3
    /\ extraction_pages = <<1, 2>>

----------------------------------------------------------------------------
(* Encoding and decoding a page list. *)

\* the integers from the first to the last element of a non-empty list
Span(s) == s[1]..s[Len(s)]

(* C26. Decoding an encoded ascending page list with parse_range gives     *)
(* back the same list exactly when the list is empty, a single page or a   *)
(* run of consecutive pages; for a list with gaps it gives every integer   *)
(* from the first to the last element, a strict superset of the list.      *)
C26_DecodeOfEncode ==
    dec_out # <<>> =>
        LET decoded == dec_out[1] IN
        /\ (decoded = enc_in) <=> ~HasGap(enc_in)
        /\ HasGap(enc_in) =>
              /\ decoded = SortedSeq(Span(enc_in))
              /\ Range(enc_in) \subseteq Range(decoded)
              /\ Range(enc_in) # Range(decoded)

\* [1, 2, 5] is encoded as "1-5" and decoded as [1, 2, 3, 4, 5]
C26_Witness ==
    /\ enc_in = <<1, 2, 5>>
    /\ enc_out = << <<"1", "-", "5">> >>
    /\ dec_out = << <<1, 2, 3, 4, 5>> >>

\* the pages of the two PDFs built for the i-th account of the plan
SlicedPages(i) ==
    Range(uploaded_files[1][i].extraction)
    \cup Range(uploaded_files[1][i].attachments)

(* C27. The page sets that the slicing stage decodes from the result       *)
(* descriptors are pairwise disjoint: no page is in both the extraction    *)
(* PDF and the attachments PDF of an account, and no page is in the PDFs   *)
(* of two different accounts.                                              *)
(* Fails on the code: an extraction list with a gap is encoded as          *)
(* "min-max" and decoded with the attachment pages that lie in the gap.    *)
C27_SlicedPagesDisjoint ==
    uploaded_files # <<>> =>
        LET built == uploaded_files[1] IN
        /\ \A i \in 1..Len(built) :
              Range(built[i].extraction) \cap Range(built[i].attachments) = {}
        /\ \A i, j \in 1..Len(built) :
              i # j => SlicedPages(i) \cap SlicedPages(j) = {}

----------------------------------------------------------------------------
(* split_on_new_account of pdfBreaker2.py: the document is cut at every    *)
(* page that introduces an account number not seen before.  Pages are      *)
(* 0-based, as in the code.                                                *)

\* what extract_account_number gives for a page: None (no marker), the text
\* of the line after the marker (possibly empty), here an account number
SplitPageOutcomes == Accounts \cup {None, ""}

SplitDocs == UNION { [1..n -> SplitPageOutcomes] : n \in 1..MaxSplitPages }

\* the truth value of  account  in  `if account and ...`
truthy(account) == account # None /\ account # ""

\* the split test without  `account not in seen_accounts`
is_new_account_any(account, seen) == truthy(account)

\* account and account not in seen_accounts
is_new_account(account, seen) == truthy(account) /\ account \notin seen

\* save_part(doc, start, end, part_no): pages start .. end-1 go to
\* part_<part_no>.pdf
save_part(start, end, no) ==
    [part_no |-> no, from_page |-> start, to_page |-> end - 1]

InitSplit ==
    /\ sp_doc \in SplitDocs
    /\ sp_pc = "loop"
    /\ page_index = 0
    /\ seen_accounts = {}
    /\ current_start = 0
    /\ part_no = 1
    /\ saved = <<>>
    /\ pc = "split"
    /\ doc = <<>>
    /\ idx = 1
    /\ out = <<>>
    /\ current_acct = None
    /\ extraction_pages = <<>>
    /\ attachment_pages = <<>>
    /\ log = <<>>
    /\ printed = <<>>
    /\ run = 1
    /\ prev_printed = <<>>
    /\ enc_in = <<>>
    /\ enc_out = <<>>
    /\ ext_fields = <<>>
    /\ ext_lines = <<>>
    /\ ext_accounts = <<>>
    /\ mk_lines = <<>>
    /\ mk_account = <<>>
    /\ SliceIdle
    /\ MailIdle

\* the loop body on a page that introduces a new account: split at this page
SplitAtPage ==
    /\ sp_pc = "loop"
    /\ page_index < Len(sp_doc)
    /\ LET account == sp_doc[page_index + 1] IN
        /\ is_new_account(account, seen_accounts)
        /\ IF page_index > current_start
           THEN /\ saved' = Append(saved, save_part(current_start, page_index,
                                                    part_no))
                /\ part_no' = part_no + 1
           ELSE UNCHANGED <<saved, part_no>>
        /\ current_start' = page_index
        /\ seen_accounts' = seen_accounts \cup {account}
    /\ page_index' = page_index + 1
    /\ UNCHANGED <<sp_doc, sp_pc>>
    /\ UNCHANGED <<foldVars, encVars, extVars, mkVars, decVars, sliceVars, mailVars>>

\* the loop body on any other page: the current chunk goes on
ContinueChunk ==
    /\ sp_pc = "loop"
    /\ page_index < Len(sp_doc)
    /\ ~is_new_account(sp_doc[page_index + 1], seen_accounts)
    /\ page_index' = page_index + 1
    /\ UNCHANGED <<sp_doc, sp_pc, seen_accounts, current_start, part_no, saved>>
    /\ UNCHANGED <<foldVars, encVars, extVars, mkVars, decVars, sliceVars, mailVars>>

\* save whatever is left
SaveLast ==
    /\ sp_pc = "loop"
    /\ page_index = Len(sp_doc)
    /\ saved' = Append(saved, save_part(current_start, Len(sp_doc), part_no))
    /\ sp_pc' = "done"
    /\ UNCHANGED <<sp_doc, page_index, seen_accounts, current_start, part_no>>
    /\ UNCHANGED <<foldVars, encVars, extVars, mkVars, decVars, sliceVars, mailVars>>

NextSplit ==
    \/ SplitAtPage
    \/ ContinueChunk
    \/ SaveLast

SpecSplit == InitSplit /\ [][NextSplit]_vars

\* the account number on the latest page before page p (1-based) that
\* carries one
LastAccountBefore(p) ==
    LET q == CHOOSE r \in 1..(p - 1) :
                 /\ truthy(sp_doc[r])
                 /\ \A t \in (r + 1)..(p - 1) : ~truthy(sp_doc[t])
    IN  sp_doc[q]

\* page p (1-based) shows again a number that an earlier page showed, after
\* a different number has been shown in between
Reappears(p) ==
    /\ truthy(sp_doc[p])
    /\ \E q \in 1..(p - 1) : sp_doc[q] = sp_doc[p]
    /\ LastAccountBefore(p) # sp_doc[p]

(* C23. Every time an account number reappears on a page after a different *)
(* account has been current, that page is treated as a new boundary: here, *)
(* for split_on_new_account, a part begins at that page.                   *)
(* Fails on pdfBreaker2.py: a number in seen_accounts never opens a chunk  *)
(* again.  (The fold of pdfBreaker.py does open a new run on such a page.) *)
C23_ReappearanceIsBoundary ==
    sp_pc = "done" =>
        \A p \in 2..Len(sp_doc) :
            Reappears(p) =>
                \E i \in 1..Len(saved) : saved[i].from_page = p - 1

----------------------------------------------------------------------------
(* email_trigger.py: EmailProcessor.process_email on one fetched email,    *)
(* from the point where its PDF attachments have been downloaded.          *)

\* how a subprocess.run ends: return code 0, another return code, or the
\* call itself raising (caught by trigger_pipeline's except)
RunOutcomes == {"ok", "fail", "raise"}

\* a downloaded PDF, with how pipeline.py and process_textract_results.py
\* would end on it
PdfRuns == [pipeline : RunOutcomes, textract : RunOutcomes]

Mails == UNION { [1..n -> PdfRuns] : n \in 0..MaxAttachments }

\* the PDF of the first (and only) iteration of  for pdf_file in pdf_files:
\* every path through the loop body returns
pdf_file == 1

Run(i, script, result) == [pdf |-> i, script |-> script, result |-> result]

InitMail ==
    /\ pdf_files \in Mails
    /\ mail_pc = "downloaded"
    /\ runs = <<>>
    /\ success = None
    /\ processed = FALSE
    /\ sent = <<>>
    /\ pc = "mail"
    /\ doc = <<>>
    /\ idx = 1
    /\ out = <<>>
    /\ current_acct = None
    /\ extraction_pages = <<>>
    /\ attachment_pages = <<>>
    /\ log = <<>>
    /\ printed = <<>>
    /\ run = 1
    /\ prev_printed = <<>>
    /\ enc_in = <<>>
    /\ enc_out = <<>>
    /\ ext_fields = <<>>
    /\ ext_lines = <<>>
    /\ ext_accounts = <<>>
    /\ mk_lines = <<>>
    /\ mk_account = <<>>
    /\ SliceIdle
    /\ SplitIdle

\* no PDF attachment: send_error_notification (which may fail to connect or
\* to send), return False
NoAttachments ==
    /\ mail_pc = "downloaded"
    /\ pdf_files = <<>>
    /\ \E delivered \in BOOLEAN :
         sent' = IF delivered THEN Append(sent, "error") ELSE sent
    /\ mail_pc' = "returned"
    /\ UNCHANGED <<pdf_files, runs, success, processed>>
    /\ UNCHANGED <<foldVars, encVars, extVars, mkVars, decVars, sliceVars, splitVars>>

\* trigger_pipeline: subprocess.run(['python', 'pipeline.py']) on the PDF
RunPipeline ==
    /\ mail_pc = "downloaded"
    /\ pdf_files # <<>>
    /\ LET result == pdf_files[pdf_file].pipeline IN
        /\ runs' = Append(runs, Run(pdf_file, "pipeline.py", result))
        /\ IF result = "ok"
           THEN mail_pc' = "textract" /\ UNCHANGED success
           ELSE mail_pc' = "triggered" /\ success' = FALSE
    /\ UNCHANGED <<pdf_files, processed, sent>>
    /\ UNCHANGED <<foldVars, encVars, extVars, mkVars, decVars, sliceVars, splitVars>>

\* trigger_pipeline: subprocess.run(['python', 'process_textract_results.py']),
\* then  return True  or  return False
RunTextract ==
    /\ mail_pc = "textract"
    /\ LET result == pdf_files[pdf_file].textract IN
        /\ runs' = Append(runs, Run(pdf_file, "process_textract_results.py",
                                    result))
        /\ success' = (result = "ok")
    /\ mail_pc' = "triggered"
    /\ UNCHANGED <<pdf_files, processed, sent>>
    /\ UNCHANGED <<foldVars, encVars, extVars, mkVars, decVars, sliceVars, splitVars>>

\* if success: mark_as_processed (imap.store may raise; the exception is
\* caught and logged)
MarkProcessed ==
    /\ mail_pc = "triggered"
    /\ success = TRUE
    /\ \E stored \in BOOLEAN : processed' = stored
    /\ mail_pc' = "marked"
    /\ UNCHANGED <<pdf_files, runs, success, sent>>
    /\ UNCHANGED <<foldVars, encVars, extVars, mkVars, decVars, sliceVars, splitVars>>

\* send_confirmation (which may fail to connect or to send), return True
SendConfirmation ==
    /\ mail_pc = "marked"
    /\ \E delivered \in BOOLEAN :
         sent' = IF delivered THEN Append(sent, "confirmation") ELSE sent
    /\ mail_pc' = "returned"
    /\ UNCHANGED <<pdf_files, runs, success, processed>>
    /\ UNCHANGED <<foldVars, encVars, extVars, mkVars, decVars, sliceVars, splitVars>>

\* success is False: return False
ReturnFalse ==
    /\ mail_pc = "triggered"
    /\ success = FALSE
    /\ mail_pc' = "returned"
    /\ UNCHANGED <<pdf_files, runs, success, processed, sent>>
    /\ UNCHANGED <<foldVars, encVars, extVars, mkVars, decVars, sliceVars, splitVars>>

NextMail ==
    \/ NoAttachments
    \/ RunPipeline
    \/ RunTextract
    \/ MarkProcessed
    \/ SendConfirmation
    \/ ReturnFalse

SpecMail == InitMail /\ [][NextMail]_vars

\* both scripts have run on the i-th PDF and ended with return code 0
Completed(i) ==
    /\ \E j \in 1..Len(runs) : runs[j] = Run(i, "pipeline.py", "ok")
    /\ \E j \in 1..Len(runs) :
          runs[j] = Run(i, "process_textract_results.py", "ok")

(* C30. An email is marked as processed, and its sender is sent a          *)
(* confirmation, only after pipeline.py and process_textract_results.py    *)
(* have both completed successfully for every PDF attachment downloaded    *)
(* from that email.                                                        *)
(* Fails on the code: trigger_pipeline returns True from inside its loop   *)
(* after the first PDF, so the other attachments are never run.            *)
C30_ProcessedOnlyAfterAllAttachments ==
    (processed \/ "confirmation" \in Range(sent))
        => \A i \in 1..Len(pdf_files) : Completed(i)
====
